---- MODULE Spec2Model ----
(***************************************************************************)
(* Audio-buffer mediation subsystem of ymery                               *)
(* (src/src/ymery/backend/audio_buffer.py): the double-depth ring buffer   *)
(* DynamicAudioRingBuffer, the DynamicAudioBufferMediator that resizes it  *)
(* from the demand of its views, and the MediatedAudioBuffer views.        *)
(*                                                                         *)
(* Samples are naturals: 0 is the zero fill of np.zeros, and the k-th      *)
(* sample ever passed to write() has the value k, so that the order and    *)
(* the origin of every stored sample can be read off the storage.          *)
(* In Spec, MediatorSpec, ViewsSpec and StaticSpec every call is one       *)
(* atomic step, and a call that would block in lock() is taken only when   *)
(* the mutex is free.  ConcSpec interleaves the producer thread, the       *)
(* control thread and the consumer threads step by step.  StaticSpec puts  *)
(* a FileAudioBuffer behind a StaticAudioBufferMediator.                   *)
(***************************************************************************)
EXTENDS Integers, Sequences, FiniteSets, TLC

\* ---------------------------------------------------------------- bounds
MaxPeriod == 2      \* period_size is drawn from 1..MaxPeriod
MaxInitial == 2     \* initial_size is drawn from 0..MaxInitial
MaxLen == 3         \* lengths passed to set_range / open are 0..MaxLen
MaxStart == 1       \* starts passed to set_range / open are 0..MaxStart
MaxChunk == 2       \* write() chunks have 0..MaxChunk samples
MaxSamples == 5     \* samples passed to write() in one behaviour
MaxViews == 2       \* MediatedAudioBuffer objects created in one behaviour
MaxConsumers == 2   \* consumer threads of the concurrent specification

Periods == 1..MaxPeriod
InitialSizes == 0..MaxInitial
Lengths == 0..MaxLen
Starts == 0..MaxStart
Chunks == 0..MaxChunk
Uids == 1..MaxViews
Consumers == 1..MaxConsumers

VARIABLES
    _period_size,       \* DynamicAudioRingBuffer._period_size
    _buffer_size,       \* logical size N
    _physical_size,     \* physical size
    _buffer,            \* None or the numpy array, as a sequence
    _active,
    _frozen,
    _ptr,               \* write pointer
    _has_wrapped,
    _lock,              \* TRUE iff the threading.Lock is held
    _mediated_buffers,  \* uids registered in AudioBufferMediator._mediated_buffers
    views,              \* uid -> the MediatedAudioBuffer object created with it
    written,            \* history: number of samples passed to write() so far
    hist,               \* history: clean = every write() so far ran on the
                        \* active, unfrozen buffer and returned, and since
                        \* the first one no resize ran and no storage was
                        \* freed; periodic = every chunk had period_size
                        \* samples; kept = the buffer was frozen when
                        \* deactivate() last made it inactive; phase =
                        \* "filling" while every write() since the storage
                        \* was last laid out at pointer 0 or by a resize was
                        \* stored, "steady" once such a run of writes has
                        \* wrapped the pointer back, "broken" otherwise;
                        \* freed = the storage is None because deactivate()
                        \* has freed it
    last,               \* history: the last call, its arguments and its outcome
    p_pc,               \* where the producer thread is in its write() call
    r_pc,               \* where the control thread is in its set_range() call
    r_len,              \* new_length of the set_range() call in flight
    c_pc,               \* consumer -> where it is in its render step
    c_data,             \* consumer -> buffer_data read in this render step
    holder,             \* history: the thread that holds the mutex
    _running,           \* OnDemandAudioRingBuffer._running
    _samples_generated, \* OnDemandAudioRingBuffer._samples_generated
    elapsed,            \* int((time.time() - _start_time) * _sample_rate) as
                        \* it would be computed now: the time since start()
    expected_samples    \* _update: expected_samples of the call in progress

backend == <<_period_size, _buffer_size, _physical_size, _buffer, _active,
             _frozen, _ptr, _has_wrapped, _lock>>
vars == <<_period_size, _buffer_size, _physical_size, _buffer, _active,
          _frozen, _ptr, _has_wrapped, _lock, _mediated_buffers, views,
          written, hist, last, p_pc, r_pc, r_len, c_pc, c_data, holder,
          _running, _samples_generated, elapsed, expected_samples>>

\* The threads of the concurrent specification; they stay where they start
\* in the specifications in which every call is one atomic step.
threads == <<p_pc, r_pc, r_len, c_pc, c_data, holder>>

\* The virtual clock of the on-demand ring buffer; it stays as it starts where
\* the buffer is written by a producer thread.
ondemand == <<_running, _samples_generated, elapsed, expected_samples>>

\* ------------------------------------------------------- Python / numpy
\* Python's None for _buffer: distinct from every array (samples are >= 0).
None == << -1 >>

Min(a, b) == IF a <= b THEN a ELSE b
Max(a, b) == IF a >= b THEN a ELSE b

\* np.zeros(n)
Zeros(n) == [i \in 1..n |-> 0]

\* s[a:b] for a, b >= 0: both ends clamped to len(s), empty when a >= b.
PySlice(s, a, b) ==
    LET lo == Min(a, Len(s))
        hi == Min(b, Len(s))
    IN IF lo >= hi THEN <<>> ELSE SubSeq(s, lo + 1, hi)

\* s[-k:] for k >= 0: the last k elements, and the whole of s when k = 0.
PyTail(s, k) ==
    IF k = 0 THEN s ELSE SubSeq(s, Max(Len(s) - k, 0) + 1, Len(s))

\* Whether numpy accepts  s[a:b] = d : equal lengths, or d of one element
\* (broadcast); anything else raises ValueError.
CanAssign(s, a, b, d) ==
    Len(d) = Len(PySlice(s, a, b)) \/ Len(d) = 1

\* s after  s[a:b] = d  when numpy accepts it.
Assign(s, a, b, d) ==
    LET lo == Min(a, Len(s))
        hi == Min(b, Len(s))
    IN [i \in 1..Len(s) |->
          IF lo < i /\ i <= hi
          THEN (IF Len(d) = 1 THEN d[1] ELSE d[i - lo])
          ELSE s[i]]

\* The call record kept in `last`; 0 where the call has no such argument.
Call(op, id, start, length, res) ==
    [op |-> op, id |-> id, start |-> start, length |-> length, res |-> res]

\* The value of holder: the kind of thread and, for a consumer, which one.
Thread(kind, id) == [kind |-> kind, id |-> id]
Nobody == Thread("none", 0)

\* ------------------------------------------------ DynamicAudioRingBuffer
\* Mutant of RoundToPeriod: the size is taken as it is given.
RoundNotAtAll(size) == size

\* Mutant of RoundToPeriod: rounds down instead of up.
RoundDownToPeriod(size) == (size \div _period_size) * _period_size

RoundToPeriod(size) ==
    ((size + _period_size - 1) \div _period_size) * _period_size

\* Mutant of DataOf: returns the whole logical window before the first fill.
DataOfWholeWindow(buf, ptr, size) ==
    IF buf = None THEN None
    ELSE IF ptr < size THEN PySlice(buf, 0, size)
    ELSE PySlice(buf, ptr - size, ptr)

\* The data property, for given storage, pointer and logical size.
DataOf(buf, ptr, size) ==
    IF buf = None THEN None
    ELSE IF ptr < size THEN PySlice(buf, 0, ptr)
    ELSE PySlice(buf, ptr - size, ptr)

Data == DataOf(_buffer, _ptr, _buffer_size)

TypeOK ==
    /\ _period_size \in Periods
    /\ _buffer_size \in Nat
    /\ _physical_size \in Nat
    /\ _active \in BOOLEAN /\ _frozen \in BOOLEAN /\ _has_wrapped \in BOOLEAN
    /\ _lock \in BOOLEAN
    /\ _ptr \in Nat
    /\ _mediated_buffers \subseteq Uids
    /\ DOMAIN views \subseteq Uids
    /\ written \in 0..MaxSamples

Init ==
    /\ _period_size \in Periods
    /\ \E initial_size \in InitialSizes :
          _buffer_size = RoundToPeriod(IF initial_size = 0 THEN _period_size
                                        ELSE initial_size)
    /\ _physical_size = _buffer_size * 2
    /\ _buffer = None
    /\ _active = FALSE
    /\ _frozen = FALSE
    /\ _ptr = 0
    /\ _has_wrapped = FALSE
    /\ _lock = FALSE
    /\ _mediated_buffers = {}
    /\ views = <<>>
    /\ written = 0
    /\ hist = [clean |-> TRUE, periodic |-> TRUE, kept |-> FALSE,
               phase |-> "filling", freed |-> FALSE]
    /\ last = Call("init", 0, 0, 0, "ok")
    /\ p_pc = "idle"
    /\ r_pc = "idle"
    /\ r_len = 0
    /\ c_pc = [c \in Consumers |-> "idle"]
    /\ c_data = [c \in Consumers |-> <<>>]
    /\ holder = Nobody
    /\ _running = FALSE
    /\ _samples_generated = 0
    /\ elapsed = 0
    /\ expected_samples = 0

mediator == <<_mediated_buffers, views>>

\* hist.phase after the storage is released: the next activate() lays it out
\* anew, at the pointer the release has left.
PhaseAfterRelease ==
    IF _ptr = 0 /\ ~_has_wrapped THEN "filling" ELSE "broken"

\* hist.phase after the locked body of set_range with outcome r.
PhaseAfterResize(r) == IF r.res = "ok" THEN "filling" ELSE "broken"

\* hist.phase after the body of write() with outcome r: the chunk is stored
\* when the buffer is active and unfrozen and nothing is raised, and the
\* pointer is wrapped back when the body is entered with it at the end.
PhaseAfterWrite(r) ==
    IF ~(_active /\ ~_frozen /\ r.res = "ok") THEN "broken"
    ELSE IF hist.phase = "filling" /\ _ptr >= _physical_size THEN "steady"
    ELSE hist.phase

\* Mutant of Activate: the physical size is taken from the logical one.
ActivateSinglePhysical ==
    /\ _buffer' = IF ~_active /\ _buffer = None THEN Zeros(_buffer_size)
                  ELSE _buffer
    /\ _physical_size' = IF ~_active /\ _buffer = None THEN _buffer_size
                         ELSE _physical_size
    /\ _active' = TRUE
    /\ hist' = [hist EXCEPT !.freed = FALSE]
    /\ last' = Call("activate", 0, 0, 0, "ok")
    /\ UNCHANGED <<threads, ondemand>>
    /\ UNCHANGED <<_period_size, _buffer_size, _frozen, _ptr, _has_wrapped,
                   _lock, mediator, written>>

Activate ==
    /\ _buffer' = IF ~_active /\ _buffer = None THEN Zeros(_physical_size)
                  ELSE _buffer
    /\ _active' = TRUE
    /\ hist' = [hist EXCEPT !.freed = FALSE]
    /\ last' = Call("activate", 0, 0, 0, "ok")
    /\ UNCHANGED <<threads, ondemand>>
    /\ UNCHANGED <<_period_size, _buffer_size, _physical_size, _frozen, _ptr,
                   _has_wrapped, _lock, mediator, written>>

\* Mutant of Deactivate: the storage is never released.
DeactivateKeepsStorage ==
    /\ _active' = FALSE
    /\ hist' = [hist EXCEPT
                  !.clean = @ /\ ~(_active /\ ~_frozen /\ written > 0),
                  !.kept = IF _active THEN _frozen ELSE @,
                  !.phase = IF _active /\ ~_frozen THEN PhaseAfterRelease
                            ELSE @]
    /\ last' = Call("deactivate", 0, 0, 0, "ok")
    /\ UNCHANGED <<threads, ondemand>>
    /\ UNCHANGED <<_period_size, _buffer_size, _physical_size, _buffer,
                   _frozen, _ptr, _has_wrapped, _lock, mediator, written>>

Deactivate ==
    /\ _buffer' = IF _active /\ ~_frozen THEN None ELSE _buffer
    /\ _active' = FALSE
    /\ hist' = [hist EXCEPT
                  !.clean = @ /\ ~(_active /\ ~_frozen /\ written > 0),
                  !.kept = IF _active THEN _frozen ELSE @,
                  !.phase = IF _active /\ ~_frozen THEN PhaseAfterRelease
                            ELSE @,
                  !.freed = @ \/ (_active /\ ~_frozen)]
    /\ last' = Call("deactivate", 0, 0, 0, "ok")
    /\ UNCHANGED <<threads, ondemand>>
    /\ UNCHANGED <<_period_size, _buffer_size, _physical_size, _frozen, _ptr,
                   _has_wrapped, _lock, mediator, written>>

Freeze ==
    /\ _frozen' = TRUE
    /\ last' = Call("freeze", 0, 0, 0, "ok")
    /\ UNCHANGED <<threads, ondemand>>
    /\ UNCHANGED <<_period_size, _buffer_size, _physical_size, _buffer,
                   _active, _ptr, _has_wrapped, _lock, mediator, written, hist>>

Unfreeze ==
    /\ _frozen' = FALSE
    /\ last' = Call("unfreeze", 0, 0, 0, "ok")
    /\ UNCHANGED <<threads, ondemand>>
    /\ UNCHANGED <<_period_size, _buffer_size, _physical_size, _buffer,
                   _active, _ptr, _has_wrapped, _lock, mediator, written, hist>>

\* lock(): blocks while the mutex is held.
Lock ==
    /\ ~_lock
    /\ _lock' = TRUE
    /\ last' = Call("lock", 0, 0, 0, "ok")
    /\ UNCHANGED <<threads, ondemand>>
    /\ UNCHANGED <<_period_size, _buffer_size, _physical_size, _buffer,
                   _active, _frozen, _ptr, _has_wrapped, mediator, written,
                   hist>>

\* unlock(): threading.Lock.release() raises RuntimeError on a free mutex.
Unlock ==
    /\ _lock' = FALSE
    /\ last' = Call("unlock", 0, 0, 0,
                    IF _lock THEN "ok" ELSE "RuntimeError")
    /\ UNCHANGED <<threads, ondemand>>
    /\ UNCHANGED <<_period_size, _buffer_size, _physical_size, _buffer,
                   _active, _frozen, _ptr, _has_wrapped, mediator, written,
                   hist>>

\* try_lock(): acquire(blocking=False).
TryLock ==
    /\ _lock' = TRUE
    /\ last' = Call("try_lock", 0, 0, 0,
                    IF _lock THEN "False" ELSE "True")
    /\ UNCHANGED <<threads, ondemand>>
    /\ UNCHANGED <<_period_size, _buffer_size, _physical_size, _buffer,
                   _active, _frozen, _ptr, _has_wrapped, mediator, written,
                   hist>>

\* The outcome of the locked body of set_range on storage buf, new_length
\* being the rounded length: the new sizes, storage, pointer and wrap flag,
\* and how the body ended.
ResizeBody(buf, new_length) ==
    LET \* self.data, evaluated after the sizes are updated
        old_useful_data == DataOf(buf, _ptr, new_length)
        new_buffer == Zeros(new_length * 2)
        copies == Len(old_useful_data) > 0
        data_to_copy == Min(Len(old_useful_data), new_length)
        src == PyTail(old_useful_data, data_to_copy)
    IN IF buf = None
       THEN [size |-> new_length, phys |-> new_length * 2, buf |-> None,
             ptr |-> 0, wrapped |-> FALSE, entered |-> TRUE, res |-> "ok"]
       ELSE IF copies /\ ~CanAssign(new_buffer, 0, data_to_copy, src)
       THEN [size |-> new_length, phys |-> new_length * 2, buf |-> buf,
             ptr |-> _ptr, wrapped |-> _has_wrapped, entered |-> TRUE,
             res |-> "ValueError"]
       ELSE [size |-> new_length, phys |-> new_length * 2,
             buf |-> IF copies THEN Assign(new_buffer, 0, data_to_copy, src)
                     ELSE new_buffer,
             ptr |-> Min(Len(old_useful_data), new_length),
             wrapped |-> FALSE, entered |-> TRUE, res |-> "ok"]

\* Mutant of Resize: the body runs also when the size is unchanged.
ResizeAlways(buf, length) == ResizeBody(buf, RoundToPeriod(length))

\* The outcome of set_range(0, length) on storage buf; entered tells whether
\* the locked body ran.
Resize(buf, length) ==
    LET new_length == RoundToPeriod(length)
    IN IF new_length = _buffer_size
       THEN [size |-> _buffer_size, phys |-> _physical_size, buf |-> buf,
             ptr |-> _ptr, wrapped |-> _has_wrapped, entered |-> FALSE,
             res |-> "ok"]
       ELSE ResizeBody(buf, new_length)

\* set_range takes the mutex only when the size changes.
ResizeBlocks(length) == _lock /\ RoundToPeriod(length) # _buffer_size

SetBackend(r) ==
    /\ _buffer_size' = r.size
    /\ _physical_size' = r.phys
    /\ _buffer' = r.buf
    /\ _ptr' = r.ptr
    /\ _has_wrapped' = r.wrapped
    /\ hist' = [hist EXCEPT !.clean = @ /\ ~(r.entered /\ written > 0),
                            !.phase = IF r.entered THEN PhaseAfterResize(r)
                                      ELSE @,
                            !.freed = @ /\ r.buf = None]

\* The record of a set_range call on the ring buffer; was is the logical size
\* at the call.
SetRangeCall(start, length, res) ==
    Call("set_range", 0, start, length, res) @@ [was |-> _buffer_size]

\* Mutant of SetRange: the start argument is not checked.
SetRangeAnyStart(start, length) ==
    /\ ~ResizeBlocks(length)
    /\ LET r == Resize(_buffer, length)
       IN /\ SetBackend(r)
          /\ last' = SetRangeCall(start, length, r.res)
    /\ UNCHANGED <<threads, ondemand>>
    /\ UNCHANGED <<_period_size, _active, _frozen, _lock, mediator, written>>

SetRange(start, length) ==
    IF start # 0
    THEN /\ last' = SetRangeCall(start, length, "ValueError")
         /\ UNCHANGED <<threads, ondemand>>
         /\ UNCHANGED <<backend, mediator, written, hist>>
    ELSE /\ ~ResizeBlocks(length)
         /\ LET r == Resize(_buffer, length)
            IN /\ SetBackend(r)
               /\ last' = SetRangeCall(start, length, r.res)
         /\ UNCHANGED <<threads, ondemand>>
         /\ UNCHANGED <<_period_size, _active, _frozen, _lock, mediator,
                        written>>

\* Mutant of MustWrap: the pointer is moved back only once it is past the end.
MustWrapLate(ptr) == ptr > _physical_size

\* write(): if self._ptr >= self._physical_size
MustWrap(ptr) == ptr >= _physical_size

\* Mutant of FirstCrossing: the flag is raised wherever the pointer is.
FirstCrossingAnywhere(ptr) == ~_has_wrapped

\* Mutant of FirstCrossing: the first crossing of N is never noticed.
FirstCrossingMissed(ptr) == FALSE

\* write(): if self._ptr >= self._buffer_size and not self._has_wrapped
FirstCrossing(ptr) == ptr >= _buffer_size /\ ~_has_wrapped

\* Mutant of WrapTarget: the pointer is wrapped back to one period.
WrapTargetPeriod == _period_size

\* write(): self._ptr = self._buffer_size, after the copy of the upper half
WrapTarget == _buffer_size

\* The outcome of the body of write(data) under the mutex; mid is the write
\* pointer as the body leaves it before the final  self._ptr += n.
WriteBody(data) ==
    LET n == Len(data)
        buf0 == IF _buffer = None THEN Zeros(_physical_size) ELSE _buffer
        wrap == MustWrap(_ptr)
        src1 == PySlice(buf0, _buffer_size, _physical_size)
        ok1 == ~wrap \/ CanAssign(buf0, 0, _buffer_size, src1)
        buf1 == IF wrap /\ ok1 THEN Assign(buf0, 0, _buffer_size, src1)
                ELSE buf0
        ptr1 == IF wrap /\ ok1 THEN WrapTarget ELSE _ptr
        first == FirstCrossing(ptr1)
        src2 == PySlice(buf1, _buffer_size, _physical_size)
        ok2 == ~first \/ CanAssign(buf1, 0, _buffer_size, src2)
        buf2 == IF first /\ ok2 THEN Assign(buf1, 0, _buffer_size, src2)
                ELSE buf1
        wrapped2 == _has_wrapped \/ (first /\ ok2)
        ok3 == CanAssign(buf2, ptr1, ptr1 + n, data)
    IN IF ~(_active /\ ~_frozen)
       THEN [buf |-> _buffer, mid |-> _ptr, ptr |-> _ptr + n,
             wrapped |-> _has_wrapped, res |-> "ok"]
       ELSE IF ~ok1
       THEN [buf |-> buf0, mid |-> _ptr, ptr |-> _ptr,
             wrapped |-> _has_wrapped, res |-> "ValueError"]
       ELSE IF ~ok2
       THEN [buf |-> buf1, mid |-> ptr1, ptr |-> ptr1,
             wrapped |-> _has_wrapped, res |-> "ValueError"]
       ELSE IF ~ok3
       THEN [buf |-> buf2, mid |-> ptr1, ptr |-> ptr1,
             wrapped |-> wrapped2, res |-> "ValueError"]
       ELSE [buf |-> Assign(buf2, ptr1, ptr1 + n, data), mid |-> ptr1,
             ptr |-> ptr1 + n, wrapped |-> wrapped2, res |-> "ok"]

\* write(data) with a chunk of n fresh samples: written+1 .. written+n.
Write(n) ==
    /\ ~_lock
    /\ written + n <= MaxSamples
    /\ LET r == WriteBody([i \in 1..n |-> written + i])
       IN /\ _buffer' = r.buf
          /\ _ptr' = r.ptr
          /\ _has_wrapped' = r.wrapped
          /\ hist' = [hist EXCEPT
                         !.clean = @ /\ _active /\ ~_frozen /\ r.res = "ok",
                         !.periodic = @ /\ n = _period_size,
                         !.phase = PhaseAfterWrite(r)]
          /\ last' = Call("write", 0, 0, 0, r.res)
    /\ written' = written + n
    /\ UNCHANGED <<threads, ondemand>>
    /\ UNCHANGED <<_period_size, _buffer_size, _physical_size, _active,
                   _frozen, _lock, mediator>>

\* Mutant of Dispose: the storage is dropped but active is left as it was.
DisposeKeepsActive ==
    /\ ~_lock
    /\ _buffer' = None
    /\ hist' = [hist EXCEPT !.clean = @ /\ written = 0,
                            !.phase = PhaseAfterRelease]
    /\ last' = Call("dispose", 0, 0, 0, "ok")
    /\ UNCHANGED <<threads, ondemand>>
    /\ UNCHANGED <<_period_size, _buffer_size, _physical_size, _active,
                   _frozen, _ptr, _has_wrapped, _lock, mediator, written>>

\* close() / dispose() of the ring buffer.
Dispose ==
    /\ ~_lock
    /\ _buffer' = None
    /\ _active' = FALSE
    /\ hist' = [hist EXCEPT !.clean = @ /\ written = 0,
                            !.phase = PhaseAfterRelease]
    /\ last' = Call("dispose", 0, 0, 0, "ok")
    /\ UNCHANGED <<threads, ondemand>>
    /\ UNCHANGED <<_period_size, _buffer_size, _physical_size, _frozen, _ptr,
                   _has_wrapped, _lock, mediator, written>>

RingNext ==
    \/ Activate
    \/ Deactivate
    \/ Freeze
    \/ Unfreeze
    \/ Lock
    \/ Unlock
    \/ TryLock
    \/ \E start \in Starts, length \in Lengths : SetRange(start, length)
    \/ \E n \in Chunks : Write(n)
    \/ Dispose

\* ---------------------------------------- MediatedAudioBuffer (the views)
\* MediatedAudioBuffer.__init__(mediator, start, length); arg_start is history:
\* the start the caller asked for, at open and at every later set_range.
NewView(start, length) ==
    [_start |-> 0, _length |-> length, arg_start |-> start]

\* AudioBufferMediator.data
MediatorData == Data

\* Mutant of ViewData: the end of the window is not offset by the start.
ViewDataEndFromZero(uid) ==
    LET source_data == MediatorData
        available == Len(source_data)
        start == Min(views[uid]._start, available)
        end == Min(views[uid]._length, available)
    IN IF source_data = None THEN <<>>
       ELSE PySlice(source_data, start, end)

\* MediatedAudioBuffer.data of the view object uid.
ViewData(uid) ==
    LET source_data == MediatorData
        available == Len(source_data)
        start == Min(views[uid]._start, available)
        end == Min(views[uid]._start + views[uid]._length, available)
    IN IF source_data = None THEN <<>>
       ELSE PySlice(source_data, start, end)

\* --------------------------------------------- DynamicAudioBufferMediator
\* Mutant of MaxEnd: the maximum of the lengths, the starts left out.
MaxLength(registered, vs) ==
    CHOOSE m \in {vs[u]._length : u \in registered} :
        \A u \in registered : vs[u]._length <= m

\* max(buf._start + buf._length for buf in the registered views)
MaxEnd(registered, vs) ==
    CHOOSE m \in {vs[u]._start + vs[u]._length : u \in registered} :
        \A u \in registered : vs[u]._start + vs[u]._length <= m

\* _resize_source_if_needed blocks iff its set_range does.
PassBlocks(registered, vs) ==
    registered # {} /\ ResizeBlocks(MaxEnd(registered, vs))

\* Mutant of ResizeSourceIfNeeded: an empty view set asks for length 0.
ResizeSourceEmptyIsZero(registered, vs, buf) ==
    Resize(buf, IF registered = {} THEN 0 ELSE MaxEnd(registered, vs))

\* Mutant of ResizeSourceIfNeeded: the backend is only ever grown.
ResizeSourceGrowOnly(registered, vs, buf) ==
    IF registered = {} \/ MaxEnd(registered, vs) <= _buffer_size
    THEN [size |-> _buffer_size, phys |-> _physical_size, buf |-> buf,
          ptr |-> _ptr, wrapped |-> _has_wrapped, entered |-> FALSE,
          res |-> "ok"]
    ELSE Resize(buf, MaxEnd(registered, vs))

\* _resize_source_if_needed, for the given registered views and storage.
ResizeSourceIfNeeded(registered, vs, buf) ==
    IF registered = {}
    THEN [size |-> _buffer_size, phys |-> _physical_size, buf |-> buf,
          ptr |-> _ptr, wrapped |-> _has_wrapped, entered |-> FALSE,
          res |-> "ok"]
    ELSE Resize(buf, MaxEnd(registered, vs))

\* Mutant of Activates: the count is taken before the new view is registered.
ActivatesOnSecond(registered) == Cardinality(registered) = 2

\* open(): if len(self._mediated_buffers) == 1, the backend is activated.
Activates(registered) == Cardinality(registered) = 1

\* DynamicAudioBufferMediator.open(start, length); the new object gets a
\* fresh uid.
Open(start, length) ==
    /\ DOMAIN views # Uids
    /\ LET uid == CHOOSE u \in Uids \ DOMAIN views :
                      \A w \in Uids \ DOMAIN views : u <= w
           vs == [u \in DOMAIN views \cup {uid} |->
                    IF u = uid THEN NewView(start, length) ELSE views[u]]
           registered == _mediated_buffers \cup {uid}
           activates == Activates(registered)
           buf == IF activates /\ ~_active /\ _buffer = None
                  THEN Zeros(_physical_size) ELSE _buffer
           r == ResizeSourceIfNeeded(registered, vs, buf)
       IN /\ ~PassBlocks(registered, vs)
          /\ views' = vs
          /\ _mediated_buffers' = registered
          /\ _active' = (_active \/ activates)
          /\ SetBackend(r)
          /\ last' = Call("open", uid, 0, 0,
                          IF r.res = "ok" THEN "Ok" ELSE r.res)
    /\ UNCHANGED <<threads, ondemand>>
    /\ UNCHANGED <<_period_size, _frozen, _lock, written>>

\* MediatedAudioBuffer.set_range(start, length) on the view object uid.
ViewSetRange(uid, start, length) ==
    /\ uid \in DOMAIN views
    /\ LET vs == [views EXCEPT ![uid] = [_start |-> start, _length |-> length,
                                         arg_start |-> start]]
           r == ResizeSourceIfNeeded(_mediated_buffers, vs, _buffer)
       IN /\ ~PassBlocks(_mediated_buffers, vs)
          /\ views' = vs
          /\ SetBackend(r)
          /\ last' = Call("view.set_range", uid, 0, 0, r.res)
    /\ UNCHANGED <<threads, ondemand>>
    /\ UNCHANGED <<_period_size, _active, _frozen, _lock, _mediated_buffers,
                   written>>

\* MediatedAudioBuffer.close(): reads self._mediated_id, an attribute that no
\* code sets, so the call raises AttributeError before it reaches the mediator.
ViewClose(uid) ==
    /\ uid \in DOMAIN views
    /\ last' = Call("view.close", uid, 0, 0, "AttributeError")
    /\ UNCHANGED <<threads, ondemand>>
    /\ UNCHANGED <<backend, mediator, written, hist>>

\* Mutant of RemoveMediatedBuffer: an absent id is a silent no-op.
RemoveSilently(mediated_id) ==
    LET registered == _mediated_buffers \ {mediated_id}
        r == ResizeSourceIfNeeded(registered, views, _buffer)
    IN /\ ~PassBlocks(registered, views)
       /\ _mediated_buffers' = registered
       /\ SetBackend(r)
       /\ last' = Call("remove", mediated_id, 0, 0,
                       IF r.res = "ok" THEN "None" ELSE r.res)
       /\ UNCHANGED <<threads, ondemand>>
       /\ UNCHANGED <<_period_size, _active, _frozen, _lock, views, written>>

\* AudioBufferMediator._remove_mediated_buffer(mediated_id)
RemoveMediatedBuffer(mediated_id) ==
    IF mediated_id \notin _mediated_buffers
    THEN /\ last' = Call("remove", mediated_id, 0, 0, "Err")
         /\ UNCHANGED <<threads, ondemand>>
         /\ UNCHANGED <<backend, mediator, written, hist>>
    ELSE LET registered == _mediated_buffers \ {mediated_id}
             r == ResizeSourceIfNeeded(registered, views, _buffer)
         IN /\ ~PassBlocks(registered, views)
            /\ _mediated_buffers' = registered
            /\ SetBackend(r)
            /\ last' = Call("remove", mediated_id, 0, 0,
                            IF r.res = "ok" THEN "None" ELSE r.res)
            /\ UNCHANGED <<threads, ondemand>>
            /\ UNCHANGED <<_period_size, _active, _frozen, _lock, views,
                           written>>

MediatorNext ==
    \/ \E start \in Starts, length \in Lengths : Open(start, length)
    \/ \E uid \in Uids, start \in Starts, length \in Lengths :
          ViewSetRange(uid, start, length)
    \/ \E uid \in Uids : ViewClose(uid)
    \/ \E uid \in Uids : RemoveMediatedBuffer(uid)
    \/ Write(_period_size)
    \/ Deactivate

\* ------------------------------------------------- concurrent execution
\* The producer thread (plugins/waveform/main.py, run) writes period-sized
\* chunks; write() is lock(), the body, and unlock() in a finally clause.
\* The consumers (frontend/widgets/implot.py, _pre_render_head) try_lock, read
\* data and unlock in a finally clause.  The control thread calls activate()
\* and set_range(0, length).  The body of write() and of set_range() is two
\* steps each, so that the state between them can be observed by a thread
\* that does not respect the mutex.

\* run(): the next chunk is generated and write() is called: it is at lock().
ProducerCall ==
    /\ p_pc = "idle"
    /\ written + _period_size <= MaxSamples
    /\ p_pc' = "lock"
    /\ UNCHANGED <<backend, mediator, written, hist, last, r_pc, r_len, c_pc,
                   c_data, holder>>
    /\ UNCHANGED ondemand

\* Mutant of ProducerAcquire: lock() does not wait for the mutex.
ProducerAcquireNoWait ==
    /\ p_pc = "lock"
    /\ _lock' = TRUE
    /\ holder' = Thread("producer", 0)
    /\ p_pc' = "store"
    /\ UNCHANGED <<_period_size, _buffer_size, _physical_size, _buffer,
                   _active, _frozen, _ptr, _has_wrapped, mediator, written,
                   hist, last, r_pc, r_len, c_pc, c_data>>
    /\ UNCHANGED ondemand

\* write(): self.lock() returns once the mutex is free.
ProducerAcquire ==
    /\ p_pc = "lock"
    /\ ~_lock
    /\ _lock' = TRUE
    /\ holder' = Thread("producer", 0)
    /\ p_pc' = "store"
    /\ UNCHANGED <<_period_size, _buffer_size, _physical_size, _buffer,
                   _active, _frozen, _ptr, _has_wrapped, mediator, written,
                   hist, last, r_pc, r_len, c_pc, c_data>>
    /\ UNCHANGED ondemand

\* write(): the wrap copies and the store of the chunk.  An exception leaves
\* the body for the finally clause.
ProducerStore ==
    /\ p_pc = "store"
    /\ LET n == _period_size
           r == WriteBody([i \in 1..n |-> written + i])
       IN /\ _buffer' = r.buf
          /\ _ptr' = r.mid
          /\ _has_wrapped' = r.wrapped
          /\ hist' = [hist EXCEPT !.clean = @ /\ _active /\ ~_frozen
                                              /\ r.res = "ok",
                                   !.phase = PhaseAfterWrite(r)]
          /\ written' = written + n
          /\ p_pc' = IF r.res = "ok" THEN "advance" ELSE "raise"
    /\ UNCHANGED <<_period_size, _buffer_size, _physical_size, _active,
                   _frozen, _lock, mediator, last, r_pc, r_len, c_pc, c_data,
                   holder>>
    /\ UNCHANGED ondemand

\* write(): self._ptr += n
ProducerAdvance ==
    /\ p_pc = "advance"
    /\ _ptr' = _ptr + _period_size
    /\ p_pc' = "unlock"
    /\ UNCHANGED <<_period_size, _buffer_size, _physical_size, _buffer,
                   _active, _frozen, _has_wrapped, _lock, mediator, written,
                   hist, last, r_pc, r_len, c_pc, c_data, holder>>
    /\ UNCHANGED ondemand

\* Mutant of ProducerRelease: unlock() is skipped when the body has raised.
ProducerReleaseUnlessRaised ==
    /\ p_pc \in {"unlock", "raise"}
    /\ _lock' = (p_pc = "raise")
    /\ holder' = IF p_pc = "raise" THEN holder ELSE Nobody
    /\ p_pc' = "idle"
    /\ last' = Call("write", 0, 0, 0,
                    IF p_pc = "unlock" THEN "ok" ELSE "ValueError")
    /\ UNCHANGED <<_period_size, _buffer_size, _physical_size, _buffer,
                   _active, _frozen, _ptr, _has_wrapped, mediator, written,
                   hist, r_pc, r_len, c_pc, c_data>>
    /\ UNCHANGED ondemand

\* write(): the finally clause unlocks, and the call returns or raises.
ProducerRelease ==
    /\ p_pc \in {"unlock", "raise"}
    /\ _lock' = FALSE
    /\ holder' = Nobody
    /\ p_pc' = "idle"
    /\ last' = Call("write", 0, 0, 0,
                    IF p_pc = "unlock" THEN "ok" ELSE "ValueError")
    /\ UNCHANGED <<_period_size, _buffer_size, _physical_size, _buffer,
                   _active, _frozen, _ptr, _has_wrapped, mediator, written,
                   hist, r_pc, r_len, c_pc, c_data>>
    /\ UNCHANGED ondemand

\* set_range(0, length): returns at once when the rounded length is the
\* current size, else goes on to lock().
ControlCall(length) ==
    /\ r_pc = "idle"
    /\ LET new_length == RoundToPeriod(length)
       IN IF new_length = _buffer_size
          THEN /\ last' = Call("set_range", 0, 0, length, "ok")
               /\ UNCHANGED <<r_pc, r_len>>
          ELSE /\ r_pc' = "lock"
               /\ r_len' = new_length
               /\ UNCHANGED last
    /\ UNCHANGED <<backend, mediator, written, hist, p_pc, c_pc, c_data,
                   holder>>
    /\ UNCHANGED ondemand

\* set_range: self.lock() returns once the mutex is free.
ControlAcquire ==
    /\ r_pc = "lock"
    /\ ~_lock
    /\ _lock' = TRUE
    /\ holder' = Thread("control", 0)
    /\ r_pc' = "sizes"
    /\ UNCHANGED <<_period_size, _buffer_size, _physical_size, _buffer,
                   _active, _frozen, _ptr, _has_wrapped, mediator, written,
                   hist, last, p_pc, r_len, c_pc, c_data>>
    /\ UNCHANGED ondemand

\* set_range: the two sizes are updated first.
ControlSizes ==
    /\ r_pc = "sizes"
    /\ _buffer_size' = r_len
    /\ _physical_size' = r_len * 2
    /\ r_pc' = "copy"
    /\ UNCHANGED <<_period_size, _buffer, _active, _frozen, _ptr,
                   _has_wrapped, _lock, mediator, written, hist, last, p_pc,
                   r_len, c_pc, c_data, holder>>
    /\ UNCHANGED ondemand

\* set_range: the new storage, the copy of the old data, the pointer and the
\* wrap flag.
ControlCopy ==
    /\ r_pc = "copy"
    /\ LET r == ResizeBody(_buffer, r_len)
       IN /\ _buffer' = r.buf
          /\ _ptr' = r.ptr
          /\ _has_wrapped' = r.wrapped
          /\ r_pc' = IF r.res = "ok" THEN "unlock" ELSE "raise"
          /\ hist' = [hist EXCEPT !.clean = @ /\ written = 0,
                                  !.phase = PhaseAfterResize(r)]
    /\ UNCHANGED <<_period_size, _buffer_size, _physical_size, _active,
                   _frozen, _lock, mediator, written, last, p_pc, r_len, c_pc,
                   c_data, holder>>
    /\ UNCHANGED ondemand

\* set_range: the finally clause unlocks, and the call returns or raises.
ControlRelease ==
    /\ r_pc \in {"unlock", "raise"}
    /\ _lock' = FALSE
    /\ holder' = Nobody
    /\ r_pc' = "idle"
    /\ last' = Call("set_range", 0, 0, r_len,
                    IF r_pc = "unlock" THEN "ok" ELSE "ValueError")
    /\ UNCHANGED <<_period_size, _buffer_size, _physical_size, _buffer,
                   _active, _frozen, _ptr, _has_wrapped, mediator, written,
                   hist, p_pc, r_len, c_pc, c_data>>
    /\ UNCHANGED ondemand

\* What a consumer's buffer.data returns: the data of a view opened with the
\* default window, which covers all the data of the backend.
ConsumerReads == IF MediatorData = None THEN <<>> ELSE MediatorData

\* Mutant of ConsumerTryLock: the result of try_lock() is ignored.
ConsumerIgnoresTryLock(c) ==
    /\ c_pc[c] = "idle"
    /\ last' = Call("try_lock", c, 0, 0, IF _lock THEN "False" ELSE "True")
    /\ _lock' = TRUE
    /\ holder' = IF _lock THEN holder ELSE Thread("consumer", c)
    /\ c_pc' = [c_pc EXCEPT ![c] = "data"]
    /\ UNCHANGED <<_period_size, _buffer_size, _physical_size, _buffer,
                   _active, _frozen, _ptr, _has_wrapped, mediator, written,
                   hist, p_pc, r_pc, r_len, c_data>>
    /\ UNCHANGED ondemand

\* _pre_render_head: if not buffer.try_lock(): return Ok(False)
ConsumerTryLock(c) ==
    /\ c_pc[c] = "idle"
    /\ IF _lock
       THEN /\ last' = Call("try_lock", c, 0, 0, "False")
            /\ UNCHANGED <<_lock, holder, c_pc>>
       ELSE /\ last' = Call("try_lock", c, 0, 0, "True")
            /\ _lock' = TRUE
            /\ holder' = Thread("consumer", c)
            /\ c_pc' = [c_pc EXCEPT ![c] = "data"]
    /\ UNCHANGED <<_period_size, _buffer_size, _physical_size, _buffer,
                   _active, _frozen, _ptr, _has_wrapped, mediator, written,
                   hist, p_pc, r_pc, r_len, c_data>>
    /\ UNCHANGED ondemand

\* _pre_render_head: buffer_data = buffer.data, then the early return or the
\* plot, all inside the try block.
ConsumerData(c) ==
    /\ c_pc[c] = "data"
    /\ c_data' = [c_data EXCEPT ![c] = ConsumerReads]
    /\ c_pc' = [c_pc EXCEPT ![c] = "unlock"]
    /\ last' = Call("data", c, 0, 0, "ok")
    /\ UNCHANGED <<backend, mediator, written, hist, p_pc, r_pc, r_len,
                   holder>>
    /\ UNCHANGED ondemand

\* Mutant of ConsumerUnlock: the step returns without buffer.unlock().
ConsumerReturnLocked(c) ==
    /\ c_pc[c] = "unlock"
    /\ c_pc' = [c_pc EXCEPT ![c] = "idle"]
    /\ c_data' = [c_data EXCEPT ![c] = <<>>]
    /\ last' = Call("unlock", c, 0, 0, "ok")
    /\ UNCHANGED <<backend, holder, mediator, written, hist, p_pc, r_pc,
                   r_len>>
    /\ UNCHANGED ondemand

\* _pre_render_head: finally: buffer.unlock()
ConsumerUnlock(c) ==
    /\ c_pc[c] = "unlock"
    /\ _lock' = FALSE
    /\ holder' = Nobody
    /\ c_pc' = [c_pc EXCEPT ![c] = "idle"]
    /\ c_data' = [c_data EXCEPT ![c] = <<>>]
    /\ last' = Call("unlock", c, 0, 0, "ok")
    /\ UNCHANGED <<_period_size, _buffer_size, _physical_size, _buffer,
                   _active, _frozen, _ptr, _has_wrapped, mediator, written,
                   hist, p_pc, r_pc, r_len>>
    /\ UNCHANGED ondemand

ConcNext ==
    \/ Activate
    \/ ProducerCall
    \/ ProducerAcquire
    \/ ProducerStore
    \/ ProducerAdvance
    \/ ProducerRelease
    \/ \E length \in Lengths : ControlCall(length)
    \/ ControlAcquire
    \/ ControlSizes
    \/ ControlCopy
    \/ ControlRelease
    \/ \E c \in Consumers : ConsumerTryLock(c)
    \/ \E c \in Consumers : ConsumerData(c)
    \/ \E c \in Consumers : ConsumerUnlock(c)

\* ------------------------------------------- the mutex through the views
\* MediatedAudioBuffer.try_lock/lock/unlock call the mediator's, which call
\* the backend's: all of them act on DynamicAudioRingBuffer._lock.

\* Mutant of ViewTryLock: the view answers from a mutex of its own, which
\* nobody else takes.
ViewTryLockOwnMutex(uid) ==
    /\ uid \in DOMAIN views
    /\ last' = Call("view.try_lock", uid, 0, 0, "True")
    /\ UNCHANGED <<threads, ondemand>>
    /\ UNCHANGED <<backend, mediator, written, hist>>

\* MediatedAudioBuffer.try_lock() on the view object uid
ViewTryLock(uid) ==
    /\ uid \in DOMAIN views
    /\ _lock' = TRUE
    /\ last' = Call("view.try_lock", uid, 0, 0,
                    IF _lock THEN "False" ELSE "True")
    /\ UNCHANGED <<threads, ondemand>>
    /\ UNCHANGED <<_period_size, _buffer_size, _physical_size, _buffer,
                   _active, _frozen, _ptr, _has_wrapped, mediator, written,
                   hist>>

\* MediatedAudioBuffer.lock() on the view object uid
ViewLock(uid) ==
    /\ uid \in DOMAIN views
    /\ ~_lock
    /\ _lock' = TRUE
    /\ last' = Call("view.lock", uid, 0, 0, "ok")
    /\ UNCHANGED <<threads, ondemand>>
    /\ UNCHANGED <<_period_size, _buffer_size, _physical_size, _buffer,
                   _active, _frozen, _ptr, _has_wrapped, mediator, written,
                   hist>>

\* MediatedAudioBuffer.unlock() on the view object uid
ViewUnlock(uid) ==
    /\ uid \in DOMAIN views
    /\ _lock' = FALSE
    /\ last' = Call("view.unlock", uid, 0, 0,
                    IF _lock THEN "ok" ELSE "RuntimeError")
    /\ UNCHANGED <<threads, ondemand>>
    /\ UNCHANGED <<_period_size, _buffer_size, _physical_size, _buffer,
                   _active, _frozen, _ptr, _has_wrapped, mediator, written,
                   hist>>

\* AudioBufferMediator.try_lock()
MediatorTryLock ==
    /\ _lock' = TRUE
    /\ last' = Call("mediator.try_lock", 0, 0, 0,
                    IF _lock THEN "False" ELSE "True")
    /\ UNCHANGED <<threads, ondemand>>
    /\ UNCHANGED <<_period_size, _buffer_size, _physical_size, _buffer,
                   _active, _frozen, _ptr, _has_wrapped, mediator, written,
                   hist>>

\* AudioBufferMediator.lock()
MediatorLock ==
    /\ ~_lock
    /\ _lock' = TRUE
    /\ last' = Call("mediator.lock", 0, 0, 0, "ok")
    /\ UNCHANGED <<threads, ondemand>>
    /\ UNCHANGED <<_period_size, _buffer_size, _physical_size, _buffer,
                   _active, _frozen, _ptr, _has_wrapped, mediator, written,
                   hist>>

\* AudioBufferMediator.unlock()
MediatorUnlock ==
    /\ _lock' = FALSE
    /\ last' = Call("mediator.unlock", 0, 0, 0,
                    IF _lock THEN "ok" ELSE "RuntimeError")
    /\ UNCHANGED <<threads, ondemand>>
    /\ UNCHANGED <<_period_size, _buffer_size, _physical_size, _buffer,
                   _active, _frozen, _ptr, _has_wrapped, mediator, written,
                   hist>>

\* Views are opened and the mutex is taken and released through the views,
\* the mediator and the backend, while the producer writes.
LockNext ==
    \/ \E start \in Starts, length \in Lengths : Open(start, length)
    \/ \E uid \in Uids : ViewTryLock(uid)
    \/ \E uid \in Uids : ViewLock(uid)
    \/ \E uid \in Uids : ViewUnlock(uid)
    \/ MediatorTryLock
    \/ MediatorLock
    \/ MediatorUnlock
    \/ TryLock
    \/ Lock
    \/ Unlock
    \/ Write(_period_size)

\* The mediator driven only through its views and the producer: nobody
\* calls deactivate() or dispose() on the backend directly.
ViewsNext ==
    \/ \E start \in Starts, length \in Lengths : Open(start, length)
    \/ \E uid \in Uids, start \in Starts, length \in Lengths :
          ViewSetRange(uid, start, length)
    \/ \E uid \in Uids : ViewClose(uid)
    \/ \E uid \in Uids : RemoveMediatedBuffer(uid)
    \/ Write(_period_size)

\* ------------------------------ FileAudioBuffer, StaticAudioBufferMediator
\* A FileAudioBuffer as the backend of a static mediator.  Of the backend
\* variables it has only _buffer, the copy of the samples loaded from the
\* file, and _active; the fields of the ring buffer do not exist on it and
\* stay at fixed values.  The k-th sample of the file has the value k.
FileContents == {[i \in 1..n |-> i] : n \in 0..MaxSamples}

StaticInit ==
    /\ _buffer \in FileContents
    /\ _active = TRUE
    /\ _period_size = 1
    /\ _buffer_size = 0
    /\ _physical_size = 0
    /\ _frozen = FALSE
    /\ _ptr = 0
    /\ _has_wrapped = FALSE
    /\ _lock = FALSE
    /\ _mediated_buffers = {}
    /\ views = <<>>
    /\ written = 0
    /\ hist = [clean |-> TRUE, periodic |-> TRUE, kept |-> FALSE,
               phase |-> "filling", freed |-> FALSE]
    /\ last = Call("init", 0, 0, 0, "ok")
    /\ p_pc = "idle"
    /\ r_pc = "idle"
    /\ r_len = 0
    /\ c_pc = [c \in Consumers |-> "idle"]
    /\ c_data = [c \in Consumers |-> <<>>]
    /\ holder = Nobody
    /\ _running = FALSE
    /\ _samples_generated = 0
    /\ elapsed = 0
    /\ expected_samples = 0

\* The fields of the backend that a FileAudioBuffer does not have.
ring_only == <<_period_size, _buffer_size, _physical_size, _frozen, _ptr,
               _has_wrapped, _lock>>

\* FileAudioBuffer.data
FileData == IF ~_active THEN None ELSE _buffer

FileActivate ==
    /\ _active' = TRUE
    /\ last' = Call("activate", 0, 0, 0, "ok")
    /\ UNCHANGED <<threads, ondemand>>
    /\ UNCHANGED <<ring_only, _buffer, mediator, written, hist>>

FileDeactivate ==
    /\ _active' = FALSE
    /\ last' = Call("deactivate", 0, 0, 0, "ok")
    /\ UNCHANGED <<threads, ondemand>>
    /\ UNCHANGED <<ring_only, _buffer, mediator, written, hist>>

\* lock(): pass
FileLock ==
    /\ last' = Call("lock", 0, 0, 0, "ok")
    /\ UNCHANGED <<threads, ondemand>>
    /\ UNCHANGED <<backend, mediator, written, hist>>

\* unlock(): pass
FileUnlock ==
    /\ last' = Call("unlock", 0, 0, 0, "ok")
    /\ UNCHANGED <<threads, ondemand>>
    /\ UNCHANGED <<backend, mediator, written, hist>>

\* try_lock(): return True
FileTryLock ==
    /\ last' = Call("try_lock", 0, 0, 0, "True")
    /\ UNCHANGED <<threads, ondemand>>
    /\ UNCHANGED <<backend, mediator, written, hist>>

\* Mutant of FileStorageAfterSetRange: the storage is cut to the range.
FileStorageCutToRange(buf, start, length) ==
    IF buf = None THEN None ELSE PySlice(buf, start, start + length)

\* The storage of the file buffer after set_range(start, length): as it was.
FileStorageAfterSetRange(buf, start, length) == buf

FileSetRange(start, length) ==
    /\ _buffer' = FileStorageAfterSetRange(_buffer, start, length)
    /\ last' = Call("set_range", 0, start, length, "ok")
    /\ UNCHANGED <<threads, ondemand>>
    /\ UNCHANGED <<ring_only, _active, mediator, written, hist>>

FileClose ==
    /\ _buffer' = None
    /\ _active' = FALSE
    /\ last' = Call("close", 0, 0, 0, "ok")
    /\ UNCHANGED <<threads, ondemand>>
    /\ UNCHANGED <<ring_only, mediator, written, hist>>

\* MediatedAudioBuffer.data of the view object uid of the static mediator.
StaticViewData(uid) ==
    LET source_data == FileData
        available == Len(source_data)
        start == Min(views[uid]._start, available)
        end == Min(views[uid]._start + views[uid]._length, available)
    IN IF source_data = None THEN <<>>
       ELSE PySlice(source_data, start, end)

\* _resize_source_if_needed of the static mediator: set_range(0, max_end) of
\* the file buffer, unless no view is registered.
StaticResizePass(registered, vs, buf) ==
    IF registered = {} THEN buf
    ELSE FileStorageAfterSetRange(buf, 0, MaxEnd(registered, vs))

\* StaticAudioBufferMediator.open(start, length): the view is created and
\* registered; the backend is neither activated nor resized.
StaticOpen(start, length) ==
    /\ DOMAIN views # Uids
    /\ LET uid == CHOOSE u \in Uids \ DOMAIN views :
                      \A w \in Uids \ DOMAIN views : u <= w
       IN /\ views' = [u \in DOMAIN views \cup {uid} |->
                         IF u = uid THEN NewView(start, length) ELSE views[u]]
          /\ _mediated_buffers' = _mediated_buffers \cup {uid}
          /\ last' = Call("open", uid, 0, 0, "Ok")
    /\ UNCHANGED <<threads, ondemand>>
    /\ UNCHANGED <<backend, written, hist>>

\* MediatedAudioBuffer.set_range(start, length) on a view of the static
\* mediator.
StaticViewSetRange(uid, start, length) ==
    /\ uid \in DOMAIN views
    /\ LET vs == [views EXCEPT ![uid] = [_start |-> start, _length |-> length,
                                         arg_start |-> start]]
       IN /\ views' = vs
          /\ _buffer' = StaticResizePass(_mediated_buffers, vs, _buffer)
    /\ last' = Call("view.set_range", uid, 0, 0, "ok")
    /\ UNCHANGED <<threads, ondemand>>
    /\ UNCHANGED <<ring_only, _active, _mediated_buffers, written, hist>>

\* AudioBufferMediator._remove_mediated_buffer(mediated_id) on the static
\* mediator.
StaticRemove(mediated_id) ==
    IF mediated_id \notin _mediated_buffers
    THEN /\ last' = Call("remove", mediated_id, 0, 0, "Err")
         /\ UNCHANGED <<threads, ondemand>>
         /\ UNCHANGED <<backend, mediator, written, hist>>
    ELSE LET registered == _mediated_buffers \ {mediated_id}
         IN /\ _mediated_buffers' = registered
            /\ _buffer' = StaticResizePass(registered, views, _buffer)
            /\ last' = Call("remove", mediated_id, 0, 0, "None")
            /\ UNCHANGED <<threads, ondemand>>
            /\ UNCHANGED <<ring_only, _active, views, written, hist>>

StaticNext ==
    \/ FileActivate
    \/ FileDeactivate
    \/ FileLock
    \/ FileUnlock
    \/ FileTryLock
    \/ \E start \in Starts, length \in Lengths : FileSetRange(start, length)
    \/ FileClose
    \/ \E start \in Starts, length \in Lengths : StaticOpen(start, length)
    \/ \E uid \in Uids, start \in Starts, length \in Lengths :
          StaticViewSetRange(uid, start, length)
    \/ \E uid \in Uids : ViewClose(uid)
    \/ \E uid \in Uids : StaticRemove(uid)

\* ------------------------------------------- OnDemandAudioRingBuffer
\* plugins/waveform_st/main.py: a DynamicAudioRingBuffer without a producer
\* thread.  Its data property first calls _update(), which writes the periods
\* that are due by the clock, and its lock(), unlock() and try_lock() do
\* nothing.  There is one thread; a call that is in progress is at "update"
\* while its _update() loop runs: c_pc[c] for a read of data by consumer c,
\* r_pc for the self.data inside set_range().  The generator is always set
\* (WaveformDeviceST.init), and _running implies that _start_time is set.
OdIdle == r_pc = "idle" /\ \A c \in Consumers : c_pc[c] = "idle"

\* _update: while self._samples_generated + self._period_size <= expected_samples
CatchUpPending ==
    _running /\ _samples_generated + _period_size <= expected_samples

\* _update: expected_samples = int(elapsed * self._sample_rate), computed only
\* when the buffer is running.
ExpectedNow == IF _running THEN elapsed ELSE 0

\* The writes of an _update() that starts now stay within MaxSamples.
CatchUpFits == written + ExpectedNow - _samples_generated <= MaxSamples

OdActivate == OdIdle /\ Activate

OdDeactivate == OdIdle /\ Deactivate

\* OnDemandAudioRingBuffer.start()
OdStart ==
    /\ OdIdle
    /\ _running' = TRUE
    /\ _samples_generated' = 0
    /\ elapsed' = 0
    /\ last' = Call("start", 0, 0, 0, "ok")
    /\ UNCHANGED <<backend, mediator, written, hist, threads,
                   expected_samples>>

\* OnDemandAudioRingBuffer.stop()
OdStop ==
    /\ OdIdle
    /\ _running' = FALSE
    /\ last' = Call("stop", 0, 0, 0, "ok")
    /\ UNCHANGED <<backend, mediator, written, hist, threads,
                   _samples_generated, elapsed, expected_samples>>

\* Time passes: one more sample is due.
OdTick ==
    /\ elapsed < MaxSamples
    /\ elapsed' = elapsed + 1
    /\ UNCHANGED <<backend, mediator, written, hist, last, threads, _running,
                   _samples_generated, expected_samples>>

\* Consumer c reads buffer.data: _update() starts.
OdDataCall(c) ==
    /\ OdIdle
    /\ CatchUpFits
    /\ c_pc' = [c_pc EXCEPT ![c] = "update"]
    /\ expected_samples' = ExpectedNow
    /\ UNCHANGED <<backend, mediator, written, hist, last, p_pc, r_pc, r_len,
                   c_data, holder, _running, _samples_generated, elapsed>>

\* _update: one turn of the loop, self.write(self._generator()).  An exception
\* of write() ends _update(), the data property and the set_range() around it.
OdUpdate ==
    /\ r_pc = "update" \/ \E c \in Consumers : c_pc[c] = "update"
    /\ CatchUpPending
    /\ LET n == _period_size
           r == WriteBody([i \in 1..n |-> written + i])
       IN /\ _buffer' = r.buf
          /\ _ptr' = r.ptr
          /\ _has_wrapped' = r.wrapped
          /\ hist' = [hist EXCEPT
                         !.clean = @ /\ _active /\ ~_frozen /\ r.res = "ok",
                         !.phase = PhaseAfterWrite(r)]
          /\ written' = written + n
          /\ last' = Call("write", 0, 0, 0, r.res)
          /\ IF r.res = "ok"
             THEN /\ _samples_generated' = _samples_generated + n
                  /\ UNCHANGED <<r_pc, c_pc, expected_samples>>
             ELSE /\ r_pc' = "idle"
                  /\ c_pc' = [c \in Consumers |-> "idle"]
                  /\ expected_samples' = 0
                  /\ UNCHANGED _samples_generated
    /\ UNCHANGED <<_period_size, _buffer_size, _physical_size, _active,
                   _frozen, _lock, mediator, p_pc, r_len, c_data, holder,
                   _running, elapsed>>

\* data: return super().data, once _update() has returned.
OdReturn(c) ==
    /\ c_pc[c] = "update"
    /\ ~CatchUpPending
    /\ c_pc' = [c_pc EXCEPT ![c] = "idle"]
    /\ expected_samples' = 0
    /\ last' = Call("data", c, 0, 0, "ok")
    /\ UNCHANGED <<backend, mediator, written, hist, p_pc, r_pc, r_len,
                   c_data, holder, _running, _samples_generated, elapsed>>

\* set_range(0, length) up to  old_useful_data = self.data : the early return,
\* the new sizes, and the start of _update() when the storage is allocated.
OdSetRangeCall(length) ==
    /\ OdIdle
    /\ CatchUpFits
    /\ LET new_length == RoundToPeriod(length)
       IN IF new_length = _buffer_size
          THEN /\ last' = Call("set_range", 0, 0, length, "ok")
               /\ UNCHANGED <<backend, hist, r_pc, r_len, expected_samples>>
          ELSE /\ _buffer_size' = new_length
               /\ _physical_size' = new_length * 2
               /\ r_len' = new_length
               /\ IF _buffer # None
                  THEN /\ r_pc' = "update"
                       /\ expected_samples' = ExpectedNow
                       /\ UNCHANGED <<_ptr, _has_wrapped, hist, last>>
                  ELSE /\ _ptr' = 0
                       /\ _has_wrapped' = FALSE
                       /\ hist' = [hist EXCEPT !.clean = @ /\ written = 0,
                                               !.phase = "filling"]
                       /\ last' = Call("set_range", 0, 0, length, "ok")
                       /\ UNCHANGED <<r_pc, expected_samples>>
               /\ UNCHANGED <<_period_size, _buffer, _active, _frozen, _lock>>
    /\ UNCHANGED <<mediator, written, p_pc, c_pc, c_data, holder, _running,
                   _samples_generated, elapsed>>

\* set_range from  old_useful_data = super().data  on: the new storage, the
\* copy, the pointer and the wrap flag.
OdSetRangeCopy ==
    /\ r_pc = "update"
    /\ ~CatchUpPending
    /\ LET r == ResizeBody(_buffer, r_len)
       IN /\ _buffer' = r.buf
          /\ _ptr' = r.ptr
          /\ _has_wrapped' = r.wrapped
          /\ hist' = [hist EXCEPT !.clean = @ /\ written = 0,
                                  !.phase = PhaseAfterResize(r)]
          /\ last' = Call("set_range", 0, 0, r_len, r.res)
    /\ r_pc' = "idle"
    /\ expected_samples' = 0
    /\ UNCHANGED <<_period_size, _buffer_size, _physical_size, _active,
                   _frozen, _lock, mediator, written, p_pc, r_len, c_pc,
                   c_data, holder, _running, _samples_generated, elapsed>>

OdNext ==
    \/ OdActivate
    \/ OdDeactivate
    \/ OdStart
    \/ OdStop
    \/ OdTick
    \/ \E c \in Consumers : OdDataCall(c)
    \/ OdUpdate
    \/ \E c \in Consumers : OdReturn(c)
    \/ \E length \in Lengths : OdSetRangeCall(length)
    \/ OdSetRangeCopy

Next == RingNext



\* ----------------------------------------------------------- properties
\* The window of the last k samples passed to write().
LastWritten(k) == [i \in 1..k |-> written - k + i]

\* C1 (P1, contiguity): on an active, unfrozen buffer that has only seen
\* period-sized writes and no resize between them, once at least N samples are
\* written data() is exactly the last N samples written, in order.
P1Contiguity ==
    (hist.clean /\ hist.periodic /\ _active /\ ~_frozen
        /\ written >= _buffer_size)
    => Data = LastWritten(_buffer_size)

\* C2 (P2, partial fill): on a freshly activated buffer, while fewer than N
\* samples have been written, data() has write_ptr samples and is exactly the
\* samples written so far, in order.
P2PartialFill ==
    (hist.clean /\ _active /\ written < _buffer_size)
    => (Len(Data) = _ptr /\ Data = LastWritten(written))

P2Witness ==
    /\ hist.clean /\ _active /\ last.op = "write"
    /\ written > 0 /\ written < _buffer_size

\* C3 (P3, double depth): physical_size is always twice logical_size, and right
\* after set_range(0, L) logical_size is the least multiple of period_size that
\* is at least L.
P3DoubleDepth ==
    /\ _physical_size = 2 * _buffer_size
    /\ (last.op = "set_range" /\ last.start = 0)
       => /\ _buffer_size % _period_size = 0
          /\ _buffer_size >= last.length
          /\ _buffer_size - _period_size < last.length

P3Witness ==
    /\ last.op = "set_range" /\ last.start = 0 /\ last.res = "ok"
    /\ _buffer # None /\ written > 0
    /\ _buffer_size > last.length /\ last.length > MaxInitial

\* C4 (P4, demand-driven resize): when open() has returned, logical_size is at
\* least start + length of every open view, start and length being the values
\* its caller asked for.
P4DemandDrivenResize ==
    (last.op = "open" /\ last.res = "Ok")
    => \A u \in _mediated_buffers :
          _buffer_size >= views[u].arg_start + views[u]._length

\* C5: close() on a registered view removes exactly that view from the
\* mediator's view set.
P5CloseDeregisters ==
    [][(last'.op = "view.close" /\ last'.id \in _mediated_buffers)
       => _mediated_buffers' = _mediated_buffers \ {last'.id}]_vars

\* C6: removing a view id that is not registered returns an error value and
\* leaves the view set and the whole backend as they were.
P6UnknownViewRejected ==
    [][(last'.op = "remove" /\ last'.id \notin _mediated_buffers)
       => (last'.res = "Err" /\ UNCHANGED <<backend, mediator>>)]_vars

P6Witness ==
    /\ last.op = "remove" /\ last.res = "Err"
    /\ last.id \in DOMAIN views /\ last.id \notin _mediated_buffers
    /\ _mediated_buffers # {} /\ _buffer # None /\ Len(Data) > 0

\* C7: set_range with a nonzero start raises and leaves the sizes, the write
\* pointer, the wrap flag, the storage and the mutex as they were.
P7NonzeroStartRejected ==
    [][(last'.op = "set_range" /\ last'.start # 0)
       => (last'.res = "ValueError" /\ UNCHANGED backend)]_vars

P7Witness ==
    /\ last.op = "set_range" /\ last.start # 0 /\ last.res = "ValueError"
    /\ _buffer # None /\ written > 0
    /\ RoundToPeriod(last.length) # _buffer_size

\* C8: write() on a buffer that is not active, or is frozen, changes neither
\* write_ptr nor has_wrapped nor the storage.
P8InactiveWriteNoOp ==
    [][(last'.op = "write" /\ (~_active \/ _frozen))
       => UNCHANGED <<_ptr, _has_wrapped, _buffer>>]_vars

\* C9: 0 <= write_ptr <= physical_size in every reachable state.
P9PtrInRange == 0 <= _ptr /\ _ptr <= _physical_size

\* C10 (P5, clamped view read): the data of every view is the part of the
\* backend data from its start on, as far as its length and the available data
\* reach; empty when the backend has no storage or start is past the data.
P5ClampedViewRead ==
    \A u \in DOMAIN views :
        LET v == views[u]
            d == ViewData(u)
            avail == IF MediatorData = None THEN 0 ELSE Len(MediatorData)
        IN /\ Len(d) <= v._length
           /\ Len(d) = Max(0, Min(v._length, avail - v._start))
           /\ \A i \in 1..Len(d) : d[i] = MediatorData[v._start + i]
           /\ (MediatorData = None \/ v._start >= avail) => d = <<>>

P5Witness ==
    \E u \in DOMAIN views :
        /\ views[u]._start > 0
        /\ Len(ViewData(u)) > 0
        /\ Len(ViewData(u)) < views[u]._length
        /\ ViewData(u)[1] > 0

\* The read section of consumer c: from the successful try_lock to the unlock.
InReadSection(c) == c_pc[c] \in {"data", "unlock"}

\* The producer is inside the body of write(), the control thread inside the
\* resize body of set_range().
InWriteBody == p_pc \in {"store", "advance", "unlock", "raise"}
InResizeBody == r_pc \in {"sizes", "copy", "unlock", "raise"}

\* C11 (no torn reads): while a consumer is between its successful try_lock
\* and its unlock it holds the mutex, neither the body of write() nor the
\* resize body of set_range() is running, and the samples it has read are
\* still what data() returns: the state left by the writes completed so far.
P11NoTornRead ==
    \A c \in Consumers :
        InReadSection(c)
        => /\ holder = Thread("consumer", c) /\ _lock
           /\ ~InWriteBody
           /\ ~InResizeBody
           /\ (c_pc[c] = "unlock" /\ c_data[c] # <<>>)
              => c_data[c] = ConsumerReads

P11Witness ==
    \E c \in Consumers :
        /\ c_pc[c] = "unlock"
        /\ Len(c_data[c]) > 1 /\ c_data[c][Len(c_data[c])] = written
        /\ p_pc = "lock" /\ r_pc = "lock"

\* C12: a consumer that is about to try_lock can always take that step; the
\* call returns False exactly when the mutex is held, and then the consumer is
\* back at the start of its step with nothing read and the mutex untouched;
\* when it returns True the consumer holds the mutex and goes on to read.
P12ConsumerNeverBlocks ==
    /\ [](\A c \in Consumers :
             c_pc[c] = "idle" => ENABLED ConsumerTryLock(c))
    /\ [][\A c \in Consumers :
             (last' # last /\ last'.op = "try_lock" /\ last'.id = c)
             => /\ (last'.res = "False") <=> _lock
                /\ last'.res = "False"
                   => /\ c_pc'[c] = "idle"
                      /\ UNCHANGED <<backend, c_data, holder>>
                /\ last'.res = "True"
                   => /\ c_pc'[c] = "data"
                      /\ holder' = Thread("consumer", c) /\ _lock']_vars

P12Witness ==
    /\ last.op = "try_lock" /\ last.res = "False"
    /\ holder = Thread("producer", 0) /\ p_pc = "advance"
    /\ c_pc[last.id] = "idle" /\ c_data[last.id] = <<>>

\* C13 as stated: the producer is never waiting in lock() while a consumer
\* holds the mutex.
P13ProducerNeverWaits == ~(p_pc = "lock" /\ holder.kind = "consumer")

\* C13, amended: the producer can wait in lock() behind a consumer, but only
\* behind one that is inside its read section, every path of which ends in
\* unlock() and whose next step never waits for another thread; a consumer
\* that was refused by try_lock or has finished its step holds nothing.
P13WaitsOnlyForReadSection ==
    /\ (p_pc = "lock" /\ _lock) => holder # Nobody
    /\ \A c \in Consumers :
          /\ holder = Thread("consumer", c)
             => /\ InReadSection(c)
                /\ ENABLED (ConsumerData(c) \/ ConsumerUnlock(c))
          /\ ~InReadSection(c) => holder # Thread("consumer", c)

P13Witness ==
    /\ p_pc = "lock" /\ holder.kind = "consumer"
    /\ c_pc[holder.id] = "data"
    /\ \E c \in Consumers :
          c # holder.id /\ last = Call("try_lock", c, 0, 0, "False")

\* C14: a set_range(0, L) that changes the size of an allocated, active
\* buffer fed with period-sized chunks and returns leaves data() equal to the last min(len(V), N') samples of V, the
\* window data() returned just before the call, with write_ptr equal to that
\* count and has_wrapped false.
P14ResizePreservesTail ==
    [][(/\ last'.op = "set_range" /\ last'.start = 0 /\ last'.res = "ok"
        /\ _buffer # None /\ _buffer_size' # _buffer_size
        /\ hist.periodic /\ _active /\ ~_frozen)
       => LET V == Data
              k == Min(Len(V), _buffer_size')
          IN /\ Data' = SubSeq(V, Len(V) - k + 1, Len(V))
             /\ _ptr' = k
             /\ ~_has_wrapped']_vars

\* The write() step that has just been taken stored its whole chunk, the
\* samples written + 1 .. written', inside the storage.
StoredWholeChunk ==
    /\ last'.res = "ok"
    /\ _ptr' <= _physical_size
    /\ PySlice(_buffer', _ptr' - (written' - written), _ptr')
         = [i \in 1..(written' - written) |-> written + i]

\* C15 as stated: on an active, unfrozen buffer of logical size N on which
\* every write so far ran active and unfrozen with no resize in between,
\* write() of any chunk of 1 <= n <= N samples completes and stores all n
\* samples inside the 2N storage.
P15AnyChunkLength ==
    [][(/\ written' > written /\ _active /\ ~_frozen /\ hist.clean
        /\ written' - written <= _buffer_size)
       => StoredWholeChunk]_vars

\* C15, amended: the same for chunks of exactly period_size samples on a
\* buffer that has only ever been written in period-sized chunks, whatever
\* else happened to it before.
P15PeriodSizedChunks ==
    [][(/\ written' > written /\ _active /\ ~_frozen /\ hist.periodic
        /\ written' - written = _period_size
        /\ _period_size <= _buffer_size)
       => StoredWholeChunk]_vars

P15Witness ==
    /\ last.op = "write" /\ last.res = "ok" /\ hist.periodic
    /\ _active /\ ~_frozen /\ _has_wrapped
    /\ _period_size > 1 /\ _ptr = _physical_size
    /\ Data = LastWritten(_buffer_size)

\* C16 (lifecycle on last close): when the removal of the last registered
\* view has returned, the backend is inactive and, unless it is frozen, its
\* storage is released.
P16LastCloseDeactivates ==
    (last.op = "remove" /\ last.res = "None" /\ _mediated_buffers = {})
    => (~_active /\ (_frozen \/ _buffer = None))

\* C17 (lifecycle on first open): while at least one view is registered the
\* backend is active and its storage is allocated, and as long as no view was
\* ever opened the storage is unallocated.
P17FirstOpenActivates ==
    /\ _mediated_buffers # {} => (_active /\ _buffer # None)
    /\ DOMAIN views = {} => _buffer = None

P17Witness ==
    /\ last.op = "remove" /\ last.res = "None"
    /\ _mediated_buffers # {} /\ Cardinality(DOMAIN views) = 2
    /\ _active /\ _buffer # None /\ Len(Data) > 0 /\ written > 0

\* C18: storage is allocated only if the buffer is active or was frozen when
\* deactivate() last made it inactive.
P18StorageOnlyIfActiveOrKept ==
    _buffer # None => (_active \/ hist.kept)

P18Witness ==
    /\ _buffer # None /\ ~_active /\ ~_frozen /\ hist.kept
    /\ last.op = "unfreeze" /\ written > 0 /\ Len(Data) > 0

\* C19 (teardown): when dispose() has returned the storage is released and
\* active is false; and from a released, inactive buffer every call other
\* than activate(), write() included, leaves the storage released, active
\* false and data() without data.
P19DisposeReleases ==
    /\ [](last.op = "dispose" => (_buffer = None /\ ~_active))
    /\ [][(_buffer = None /\ ~_active /\ last'.op # "activate")
          => (_buffer' = None /\ ~_active' /\ Data' = None)]_vars

P19Witness ==
    /\ last.op = "dispose" /\ _buffer = None /\ ~_active
    /\ _has_wrapped /\ _ptr > _buffer_size /\ written > 0 /\ hist.periodic

\* C20 (P6, static immutability): try_lock() on a file buffer always returns
\* True, and on a file buffer that is active no call other than deactivate()
\* and close() -- lock, unlock, try_lock, set_range, and open, set_range,
\* close and removal of views of its static mediator -- changes what data()
\* returns.
P20StaticImmutability ==
    /\ [](last.op = "try_lock" => last.res = "True")
    /\ [][(_active /\ last'.op \notin {"deactivate", "close"})
          => FileData' = FileData]_vars

P20Witness ==
    /\ last.op = "view.set_range" /\ last.id \in _mediated_buffers
    /\ _active /\ FileData # None /\ Len(FileData) > 1
    /\ views[last.id]._start + views[last.id]._length < Len(FileData)
    /\ FileData = [i \in 1..Len(FileData) |-> i]

\* C21: a view of a static mediator over the file data F reads the window
\* its caller asked for: F[min(start, |F|) : min(start + length, |F|)],
\* start and length being the arguments of open() or of the last set_range.
P21StaticViewWindow ==
    (_active /\ _buffer # None)
    => \A u \in DOMAIN views :
          StaticViewData(u)
            = PySlice(_buffer, Min(views[u].arg_start, Len(_buffer)),
                      Min(views[u].arg_start + views[u]._length, Len(_buffer)))

\* C22: when set_range(s, l) on a registered view of the dynamic mediator has
\* returned, the window of that view is (s, l), the other views are as they
\* were, and logical_size is at least start + length of every registered
\* view; the call is never rejected for a nonzero start.
P22ViewSetRangeResizes ==
    [][(last'.op = "view.set_range" /\ last'.id \in _mediated_buffers)
       => /\ last'.res = "ok"
             => /\ views'[last'.id]._start = views'[last'.id].arg_start
                /\ \A u \in DOMAIN views \ {last'.id} : views'[u] = views[u]
                /\ \A u \in _mediated_buffers' :
                      _buffer_size' >= views'[u]._start + views'[u]._length
          /\ last'.res # "ok"
             => (_buffer_size' = 0 /\ MaxEnd(_mediated_buffers', views') = 0)
          /\ _mediated_buffers' = _mediated_buffers]_vars

P22Witness ==
    /\ last.op = "view.set_range" /\ last.res = "ok"
    /\ last.id \in _mediated_buffers /\ Cardinality(_mediated_buffers) = 2
    /\ views[last.id]._start > 0 /\ views[last.id]._length > 0
    /\ _buffer_size = views[last.id]._start + views[last.id]._length
    /\ written > 0 /\ Len(Data) > 0

\* The calls that try, take and release the mutex, by whichever object.
TryLockOps == {"try_lock", "mediator.try_lock", "view.try_lock"}
UnlockOps == {"unlock", "mediator.unlock", "view.unlock"}

\* C23 (single shared mutex): a try_lock through a view, the mediator or the
\* backend returns False exactly when the one mutex is held; a successful
\* try_lock through a view leaves it held; and once held it stays held until
\* an unlock is issued.  So after one view's try_lock has succeeded, every
\* try_lock through any object returns False until an unlock.
P23SingleMutex ==
    /\ [][last'.op \in TryLockOps
          => /\ (last'.res = "False") <=> _lock
             /\ _lock']_vars
    /\ [][(_lock /\ ~_lock') => last'.op \in UnlockOps]_vars

P23Witness ==
    /\ last.op = "mediator.try_lock" /\ last.res = "False"
    /\ Cardinality(_mediated_buffers) = 2 /\ _lock
    /\ written > 0

\* C24 (N = period_size): on an active buffer whose logical size is
\* period_size and that has only seen writes of N samples, after one or more
\* writes data() is the most recent chunk; from the second write on write_ptr
\* is 2N and has_wrapped is true when write() returns, and the next write
\* starts by wrapping write_ptr back to N.
P24PeriodSizedBuffer ==
    (/\ hist.clean /\ hist.periodic /\ _active /\ ~_frozen
     /\ _buffer_size = _period_size /\ written >= _buffer_size)
    => /\ Data = LastWritten(_buffer_size)
       /\ written >= 2 * _buffer_size
          => /\ _ptr = 2 * _buffer_size
             /\ _has_wrapped
             /\ WriteBody([i \in 1.._period_size |-> written + i]).mid
                  = _buffer_size

P24Witness ==
    /\ hist.clean /\ hist.periodic /\ _active /\ ~_frozen
    /\ _buffer_size = _period_size /\ _period_size > 1
    /\ last.op = "write" /\ written = 2 * _buffer_size
    /\ Data = LastWritten(_period_size)

\* C25: logical_size is a multiple of period_size in every reachable state.
P25SizeMultipleOfPeriod == _buffer_size % _period_size = 0

P25Witness ==
    /\ last.op = "set_range" /\ last.start = 0 /\ last.res = "ok"
    /\ _period_size > 1 /\ last.length % _period_size # 0
    /\ _buffer_size = last.length + 1 /\ _buffer_size > MaxInitial
    /\ _buffer # None /\ _ptr > 0

\* C26: when set_range(0, L) has shrunk an allocated buffer to N' with N'
\* samples preserved, the next write of period_size = k < N' samples on the
\* active, unfrozen buffer makes data() the last N' - k preserved samples
\* followed by the k new ones.
P26PreservedDataSurvivesWrite ==
    [][(/\ last.op = "set_range" /\ last.res = "ok"
        /\ last.was > _buffer_size /\ _buffer # None
        /\ Len(Data) = _buffer_size
        /\ _active /\ ~_frozen
        /\ written' - written = _period_size
        /\ _period_size < _buffer_size)
       => Data' = SubSeq(Data, _period_size + 1, _buffer_size)
                    \o [i \in 1.._period_size |-> written + i]]_vars

PassOps == {"open", "remove", "view.close", "view.set_range"}

\* C28 (no over-allocation): after open, close or view.set_range on a dynamic
\* mediator that leaves views registered, logical_size is less than the
\* largest start + length of the registered views plus period_size.
P28NoOverAllocation ==
    [][(last'.op \in PassOps /\ _mediated_buffers' # {})
       => _buffer_size' < MaxEnd(_mediated_buffers', views') + _period_size]_vars

P28Witness ==
    /\ last.op = "remove" /\ last.res = "None" /\ _mediated_buffers # {}
    /\ views[last.id]._start + views[last.id]._length > _buffer_size
    /\ _period_size > 1
    /\ _buffer_size > MaxEnd(_mediated_buffers, views)
    /\ _buffer # None /\ written > 0

\* The calls on the ring buffer that are not a resize.
NonResizeOps == {"write", "activate", "deactivate", "freeze", "unfreeze",
                 "lock", "unlock", "try_lock"}

\* C29: write, activate, deactivate, freeze, unfreeze, lock, unlock and
\* try_lock leave logical_size and physical_size as they were (data is a pure
\* read).
P29OnlyResizeChangesSize ==
    [][last'.op \in NonResizeOps
       => UNCHANGED <<_buffer_size, _physical_size>>]_vars

P29Witness ==
    /\ last.op = "write" /\ last.res = "ok" /\ _active /\ ~_frozen
    /\ _has_wrapped /\ _ptr > _buffer_size
    /\ _buffer_size > MaxInitial /\ _physical_size = 2 * _buffer_size

P31SameSizeResizeIsNoOp ==
    [][(/\ last'.op = "set_range" /\ last'.start = 0
        /\ RoundToPeriod(last'.length) = _buffer_size)
       => /\ UNCHANGED <<_buffer_size, _physical_size, _ptr, _has_wrapped,
                         _buffer, _lock>>
          /\ Data' = Data
          /\ last'.res = "ok"]_vars

P31Witness ==
    /\ last.op = "set_range" /\ last.start = 0 /\ last.res = "ok"
    /\ last.was = _buffer_size /\ last.length < _buffer_size
    /\ RoundToPeriod(last.length) = _buffer_size
    /\ _lock /\ _active /\ _has_wrapped /\ _ptr > _buffer_size
    /\ Len(Data) = _buffer_size

\* The last n elements of data() after the step are the n samples the step
\* has passed to write().
NewestChunkVisible(n) ==
    /\ Len(Data') >= n
    /\ SubSeq(Data', Len(Data') - n + 1, Len(Data'))
          = [i \in 1..n |-> written + i]

\* C32 as stated: right after any period-sized write of n <= N samples on an
\* active, unfrozen buffer the last n elements of data() are the chunk just
\* written.
P32NewestChunkVisible ==
    [][(/\ last'.op = "write" /\ written' - written = _period_size
        /\ _period_size <= _buffer_size
        /\ _active /\ ~_frozen)
       => NewestChunkVisible(_period_size)]_vars

\* C32 amended: the same, on a buffer that has been written in period-sized
\* chunks only.
P32NewestChunkVisiblePeriodic ==
    [][(/\ last'.op = "write" /\ written' - written = _period_size
        /\ _period_size <= _buffer_size
        /\ _active /\ ~_frozen
        /\ hist.periodic)
       => NewestChunkVisible(_period_size)]_vars

P32Witness ==
    /\ last.op = "write" /\ last.res = "ok" /\ hist.periodic /\ ~hist.clean
    /\ _active /\ ~_frozen /\ _has_wrapped
    /\ _buffer_size > _period_size /\ Len(Data) = _buffer_size
    /\ PyTail(Data, _period_size) = LastWritten(_period_size)

\* C33: when deactivate() has freed the storage, the activate() that allocates
\* it again leaves data() empty, whatever write() calls arrived in between.
P33ReactivatedDataIsEmpty ==
    [][(last'.op = "activate" /\ hist.freed /\ _buffer = None /\ ~_active)
       => (_buffer' # None /\ Data' = <<>>)]_vars

\* C34: has_wrapped implies write_ptr >= N in every reachable state;
\* has_wrapped becomes true only in a write() entered with write_ptr >= N on
\* the active, unfrozen buffer, and false again only in a set_range() that
\* changes the size.
P34WrapFlag ==
    /\ [](_has_wrapped => _ptr >= _buffer_size)
    /\ [][(~_has_wrapped /\ _has_wrapped')
          => (/\ last'.op = "write" /\ _ptr >= _buffer_size
              /\ _active /\ ~_frozen)]_vars
    /\ [][(_has_wrapped /\ ~_has_wrapped')
          => (last'.op = "set_range" /\ _buffer_size' # _buffer_size)]_vars

P34Witness ==
    /\ _has_wrapped /\ last.op = "write" /\ last.res = "ok"
    /\ _ptr > _buffer_size /\ _buffer_size > 0
    /\ ~hist.clean /\ hist.phase = "filling" /\ _active /\ ~_frozen

\* C35 (lock balance): the mutex is free whenever no write body, resize body
\* or consumer read section is in progress, and every way out of such a
\* section, the raising ones included, is taken by the holder of the mutex and
\* releases it.
P35LockBalance ==
    /\ []((~InWriteBody /\ ~InResizeBody
             /\ \A c \in Consumers : ~InReadSection(c)) => ~_lock)
    /\ [][(InWriteBody /\ p_pc' = "idle")
          => (holder = Thread("producer", 0) /\ ~_lock')]_vars
    /\ [][(InResizeBody /\ r_pc' = "idle")
          => (holder = Thread("control", 0) /\ ~_lock')]_vars
    /\ [][\A c \in Consumers : (InReadSection(c) /\ c_pc'[c] = "idle")
             => (holder = Thread("consumer", c) /\ ~_lock')]_vars

P35Witness ==
    /\ last.op = "write" /\ last.res = "ValueError"
    /\ p_pc = "idle" /\ r_pc = "idle" /\ \A c \in Consumers : c_pc[c] = "idle"
    /\ ~_lock /\ holder = Nobody

StorageMatchesSizes == _buffer # None => Len(_buffer) = _physical_size

\* The next step of some call is the store of write() on the active, unfrozen
\* buffer: in the producer thread, or in a turn of the _update() loop.
WriteAboutToStore ==
    /\ _active /\ ~_frozen
    /\ \/ p_pc = "store"
       \/ /\ CatchUpPending
          /\ r_pc = "update" \/ \E c \in Consumers : c_pc[c] = "update"

\* The next step of some consumer is its read of the ring buffer's data.
ConsumerAboutToRead ==
    \E c \in Consumers :
        c_pc[c] = "data" \/ (c_pc[c] = "update" /\ ~CatchUpPending)

\* C37: whenever write() is about to store samples or a consumer is about to
\* read data(), the allocated storage has exactly physical_size elements, in
\* the threaded ring buffer and in the on-demand one, a data() evaluated inside
\* set_range() included.
P37StorageMatchesSizes ==
    (WriteAboutToStore \/ ConsumerAboutToRead) => StorageMatchesSizes

\* C38: logical_size >= period_size > 0 in every reachable state of a ring
\* buffer behind a dynamic mediator, whatever views are open, views of length 0
\* included.
P38AtLeastOnePeriod == _buffer_size >= _period_size /\ _period_size > 0

\* C39 (virtual-clock catch-up): a read of data on the on-demand buffer ends
\* by returning, never by an exception of a write; when it returns on a running
\* buffer samples_generated is a multiple of period_size and
\* 0 <= expected - samples_generated < period_size, so that exactly
\* floor((expected - generated) / period_size) chunks were written, one per
\* turn and each of period_size samples; and nothing is written while the
\* buffer is not running.
P39CatchUp ==
    /\ [][\A c \in Consumers : (c_pc[c] = "update" /\ c_pc'[c] = "idle")
             => /\ last'.op = "data"
                /\ _running
                     => /\ _samples_generated % _period_size = 0
                        /\ expected_samples - _samples_generated >= 0
                        /\ expected_samples - _samples_generated
                             < _period_size]_vars
    /\ [][written' # written
          => /\ _running
             /\ written' = written + _period_size
             /\ last'.res = "ok"
                  => _samples_generated' = _samples_generated + _period_size]_vars

\* The ring buffer driven directly.
Spec == Init /\ [][Next]_vars

\* The ring buffer behind a dynamic mediator and its views: consumers open,
\* move and close views, the producer writes period-sized chunks, and the
\* owner of the buffer may deactivate it.
MediatorSpec == Init /\ [][MediatorNext]_vars

\* The same without the owner: only views and the producer act.
ViewsSpec == Init /\ [][ViewsNext]_vars

\* The mutex of the ring buffer reached through views, mediator and backend.
LockSpec == Init /\ [][LockNext]_vars

\* A file buffer behind a static mediator and its views.
StaticSpec == StaticInit /\ [][StaticNext]_vars

\* The ring buffer shared by the producer thread, the control thread and the
\* consumer threads, interleaved step by step.
ConcSpec == Init /\ [][ConcNext]_vars

\* The on-demand ring buffer of the single-threaded plugin.
OnDemandSpec == Init /\ [][OdNext]_vars

\* Fair scheduling: a thread that can take its next step inside a call takes
\* it, and a thread waiting in lock() is not passed over for ever when the
\* mutex is free again and again.  When a call or a render step starts is
\* left to the threads.
ConcFairness ==
    /\ SF_vars(ProducerAcquire)
    /\ WF_vars(ProducerStore)
    /\ WF_vars(ProducerAdvance)
    /\ WF_vars(ProducerRelease)
    /\ SF_vars(ControlAcquire)
    /\ WF_vars(ControlSizes)
    /\ WF_vars(ControlCopy)
    /\ WF_vars(ControlRelease)
    /\ \A c \in Consumers : WF_vars(ConsumerData(c))
    /\ \A c \in Consumers : WF_vars(ConsumerUnlock(c))

\* The threads of ConcSpec under fair scheduling.
FairConcSpec == ConcSpec /\ ConcFairness
====
